---- MODULE Spec2Model ----
(***************************************************************************)
(* Helium-3 mining simulator: a fleet of trucks cycling through Mining,    *)
(* TravelStation, Waiting, Unloading and TravelMining over a set of        *)
(* unloading stations, driven by Simulation::run_sim for MAX_TIME ticks.   *)
(*                                                                         *)
(* The 64-bit packed ledger Truck::total_time is kept as four 16-bit limbs *)
(* (least significant first) with carry between limbs, so that the packed  *)
(* arithmetic of the source is modelled and not four separate counters.    *)
(***************************************************************************)
EXTENDS Integers, Sequences, FiniteSets, TLC

(***************************************************************************)
(* Bounds of the model                                                     *)
(***************************************************************************)
MaxTrucks == 3
MaxStations == 2
MiningSpread == 1
MaxRedraws == 1

(***************************************************************************)
(* Program constants (include/main.hpp)                                    *)
(***************************************************************************)
TRAVEL_TIME == 6
ONE_HOUR == 12
FIVE_HOUR == 60
MAX_TIME == 864

Two16 == 65536

WAITING_INC == <<1, 0, 0, 0>>
UNLOADING_INC == <<0, 1, 0, 0>>
TRAVELING_INC == <<0, 0, 1, 0>>
MINING_INC == <<0, 0, 0, 1>>

WAITING_MASK == <<65535, 0, 0, 0>>
UNLOADING_MASK == <<0, 65535, 0, 0>>
TRAVELING_MASK == <<0, 0, 65535, 0>>
MINING_MASK == <<0, 0, 0, 65535>>

TruckState == {"Mining", "TravelStation", "Waiting", "Unloading", "TravelMining"}

(***************************************************************************)
(* Fixed-width arithmetic                                                  *)
(***************************************************************************)
\* uint16_t x; x++
Inc16(x) == (x + 1) % Two16

\* uint16_t x; x--
Dec16(x) == (x + Two16 - 1) % Two16

\* bitwise and of two 16-bit values
RECURSIVE BitAnd(_, _, _)
BitAnd(a, b, n) ==
    IF n = 0 THEN 0
    ELSE (IF a % 2 = 1 /\ b % 2 = 1 THEN 1 ELSE 0) + 2 * BitAnd(a \div 2, b \div 2, n - 1)

And16(a, b) ==
    IF b = Two16 - 1 THEN a
    ELSE IF b = 0 \/ a = 0 THEN 0
    ELSE BitAnd(a, b, 16)

\* uint64_t a; a += b   (carry runs through the limbs, the carry out of
\* bit 63 is dropped)
Carry(a, b, k) ==
    LET c1 == IF k > 1 /\ a[1] + b[1] >= Two16 THEN 1 ELSE 0
        c2 == IF k > 2 /\ a[2] + b[2] + c1 >= Two16 THEN 1 ELSE 0
        c3 == IF k > 3 /\ a[3] + b[3] + c2 >= Two16 THEN 1 ELSE 0
    IN  IF k = 1 THEN 0 ELSE IF k = 2 THEN c1 ELSE IF k = 3 THEN c2 ELSE c3

Add64(a, b) == [k \in 1..4 |-> (a[k] + b[k] + Carry(a, b, k)) % Two16]

\* DATA & MASK
And64(a, m) == [k \in 1..4 |-> And16(a[k], m[k])]

\* DATA >> SHIFT, SHIFT a multiple of 16 as in every use of the source
Shr64(a, shift) ==
    [k \in 1..4 |-> IF k + (shift \div 16) <= 4 THEN a[k + (shift \div 16)] ELSE 0]

\* the numeric value of a word whose upper limbs are zero
Value64(a) == a[1] + Two16 * (a[2] + Two16 * (a[3] + Two16 * a[4]))

RETRIEVE_TIME(DATA, MASK, SHIFT) == Value64(Shr64(And64(DATA, MASK), SHIFT))

(***************************************************************************)
(* The random source: rmt(gen), uniform over [ONE_HOUR, FIVE_HOUR].  A run *)
(* of the model draws from one end of the range.                           *)
(***************************************************************************)
\* faulty variant: the lower limit of the distribution is 1
rmt_FromOne == 1..FIVE_HOUR

\* faulty variant: the upper limit of the distribution is one too large
rmt_PastFiveHours == ONE_HOUR..(FIVE_HOUR + 1)

rmt == ONE_HOUR..FIVE_HOUR

\* the values of rmt within MiningSpread of its lower limit
LowDraws == {d \in rmt : \A e \in rmt : d <= e + MiningSpread}

\* the values of rmt within MiningSpread of its upper limit
HighDraws == {d \in rmt : \A e \in rmt : d >= e - MiningSpread}

(***************************************************************************)
(* Station                                                                 *)
(***************************************************************************)
Station == [queue |-> 0, num_trucks_unloaded |-> 0]

get_queue(s) == s.queue

increment_queue(s) == [s EXCEPT !.queue = Inc16(@)]

\* faulty variant: the decrement without its guard
decrement_queue_Unguarded(s) == [s EXCEPT !.queue = Dec16(@)]

\* faulty variant: the decrement is applied to the count of unloaded trucks
decrement_queue_WrongField(s) ==
    [s EXCEPT !.num_trucks_unloaded = (@ + Two16 - (IF @ > 0 THEN 1 ELSE 0)) % Two16]

\* this->queue -= (this->queue > 0)
decrement_queue(s) ==
    [s EXCEPT !.queue = (@ + Two16 - (IF @ > 0 THEN 1 ELSE 0)) % Two16]

\* faulty variant: the count is not changed
increment_trucks_unloaded_Dropped(s) == s

increment_trucks_unloaded(s) ==
    [s EXCEPT !.num_trucks_unloaded = Inc16(@)]

(***************************************************************************)
(* Truck                                                                   *)
(***************************************************************************)
\* Truck::Truck(), d the value drawn from rmt(gen)
Truck(d) ==
    [state |-> "Mining", timer |-> d, total_time |-> <<0, 0, 0, 0>>, station_idx |-> 0]

get_total_time(t) == t.total_time

\* the four ledger fields, decoded as Truck::logging decodes them
Waiting(t) == RETRIEVE_TIME(t.total_time, WAITING_MASK, 0)
Unloading(t) == RETRIEVE_TIME(t.total_time, UNLOADING_MASK, 16)
Traveling(t) == RETRIEVE_TIME(t.total_time, TRAVELING_MASK, 32)

\* faulty variant: the mining field is shifted as the traveling field is
Mining_WrongShift(t) == RETRIEVE_TIME(t.total_time, MINING_MASK, 32)

Mining(t) == RETRIEVE_TIME(t.total_time, MINING_MASK, 48)

\* The result of a call of Truck::run: the truck, the stations and the cursor
\* after the call, and whether the call threw.
Outcome(t, stations, curr_idx) ==
    [truck |-> t, stations |-> stations, curr_idx |-> curr_idx, thrown |-> FALSE]

\* faulty variant: the travel timer is one tick short
RunMining_ShortTravel(t) ==
    LET t1 == [t EXCEPT !.timer = Dec16(@),
                        !.total_time = Add64(@, MINING_INC)]
    IN  IF t1.timer = 0
        THEN [t1 EXCEPT !.timer = TRAVEL_TIME - 1, !.state = "TravelStation"]
        ELSE t1

\* Truck::run, branch TruckState::Mining
RunMining(t) ==
    LET t1 == [t EXCEPT !.timer = Dec16(@),
                        !.total_time = Add64(@, MINING_INC)]
    IN  IF t1.timer = 0
        THEN [t1 EXCEPT !.timer = TRAVEL_TIME, !.state = "TravelStation"]
        ELSE t1

\* faulty variant: the cursor is not advanced after the assignment
RunTravelStation_CursorStuck(t, stations, curr_idx) ==
    LET t1 == [t EXCEPT !.timer = Dec16(@),
                        !.total_time = Add64(@, TRAVELING_INC)]
    IN  IF t1.timer = 0
        THEN LET q == get_queue(stations[curr_idx + 1])
             IN  Outcome([t1 EXCEPT !.station_idx = curr_idx,
                                    !.timer = q,
                                    !.state = IF q # 0 THEN "Waiting" ELSE "Unloading"],
                         [stations EXCEPT ![curr_idx + 1] = increment_queue(@)],
                         curr_idx)
        ELSE Outcome(t1, stations, curr_idx)

\* faulty variant: stations[++curr_idx] instead of stations[curr_idx++], the
\* queue of the station after the cursor is incremented
RunTravelStation_PreIncrement(t, stations, curr_idx) ==
    LET t1 == [t EXCEPT !.timer = Dec16(@),
                        !.total_time = Add64(@, TRAVELING_INC)]
        nxt == (curr_idx + 1) % Len(stations)
    IN  IF t1.timer = 0
        THEN LET q == get_queue(stations[curr_idx + 1])
             IN  Outcome([t1 EXCEPT !.station_idx = curr_idx,
                                    !.timer = q,
                                    !.state = IF q # 0 THEN "Waiting" ELSE "Unloading"],
                         [stations EXCEPT ![nxt + 1] = increment_queue(@)],
                         nxt)
        ELSE Outcome(t1, stations, curr_idx)

\* faulty variant: every arriving truck is put in Waiting
RunTravelStation_AlwaysWaits(t, stations, curr_idx) ==
    LET t1 == [t EXCEPT !.timer = Dec16(@),
                        !.total_time = Add64(@, TRAVELING_INC)]
    IN  IF t1.timer = 0
        THEN LET q == get_queue(stations[curr_idx + 1])
             IN  Outcome([t1 EXCEPT !.station_idx = curr_idx,
                                    !.timer = q,
                                    !.state = "Waiting"],
                         [stations EXCEPT ![curr_idx + 1] = increment_queue(@)],
                         (curr_idx + 1) % Len(stations))
        ELSE Outcome(t1, stations, curr_idx)

\* faulty variant: the queue is read after it has been incremented
RunTravelStation_ReadsAfterIncrement(t, stations, curr_idx) ==
    LET t1 == [t EXCEPT !.timer = Dec16(@),
                        !.total_time = Add64(@, TRAVELING_INC)]
    IN  IF t1.timer = 0
        THEN LET q == get_queue(increment_queue(stations[curr_idx + 1]))
             IN  Outcome([t1 EXCEPT !.station_idx = curr_idx,
                                    !.timer = q,
                                    !.state = IF q # 0 THEN "Waiting" ELSE "Unloading"],
                         [stations EXCEPT ![curr_idx + 1] = increment_queue(@)],
                         (curr_idx + 1) % Len(stations))
        ELSE Outcome(t1, stations, curr_idx)

\* faulty variant: the station index is recorded after the cursor has moved
RunTravelStation_RecordsNext(t, stations, curr_idx) ==
    LET t1 == [t EXCEPT !.timer = Dec16(@),
                        !.total_time = Add64(@, TRAVELING_INC)]
    IN  IF t1.timer = 0
        THEN LET q == get_queue(stations[curr_idx + 1])
             IN  Outcome([t1 EXCEPT !.station_idx = (curr_idx + 1) % Len(stations),
                                    !.timer = q,
                                    !.state = IF q # 0 THEN "Waiting" ELSE "Unloading"],
                         [stations EXCEPT ![curr_idx + 1] = increment_queue(@)],
                         (curr_idx + 1) % Len(stations))
        ELSE Outcome(t1, stations, curr_idx)

\* faulty variant: the arriving truck does not join the queue
RunTravelStation_NoQueueIncrement(t, stations, curr_idx) ==
    LET t1 == [t EXCEPT !.timer = Dec16(@),
                        !.total_time = Add64(@, TRAVELING_INC)]
    IN  IF t1.timer = 0
        THEN LET q == get_queue(stations[curr_idx + 1])
             IN  Outcome([t1 EXCEPT !.station_idx = curr_idx,
                                    !.timer = q,
                                    !.state = IF q # 0 THEN "Waiting" ELSE "Unloading"],
                         stations,
                         (curr_idx + 1) % Len(stations))
        ELSE Outcome(t1, stations, curr_idx)

\* Truck::run, branch TruckState::TravelStation
RunTravelStation(t, stations, curr_idx) ==
    LET t1 == [t EXCEPT !.timer = Dec16(@),
                        !.total_time = Add64(@, TRAVELING_INC)]
    IN  IF t1.timer = 0
        THEN LET q == get_queue(stations[curr_idx + 1])
             IN  Outcome([t1 EXCEPT !.station_idx = curr_idx,
                                    !.timer = q,
                                    !.state = IF q # 0 THEN "Waiting" ELSE "Unloading"],
                         [stations EXCEPT ![curr_idx + 1] = increment_queue(@)],
                         (curr_idx + 1) % Len(stations))
        ELSE Outcome(t1, stations, curr_idx)

\* faulty variant: the waiting tick is charged twice
RunWaiting_ChargedTwice(t) ==
    LET t1 == [t EXCEPT !.timer = Dec16(@),
                        !.total_time = Add64(Add64(@, WAITING_INC), WAITING_INC)]
    IN  IF t1.timer = 0 THEN [t1 EXCEPT !.state = "Unloading"] ELSE t1

\* faulty variant: the timer is tested before it is decremented
RunWaiting_LateExit(t) ==
    LET t1 == [t EXCEPT !.timer = Dec16(@),
                        !.total_time = Add64(@, WAITING_INC)]
    IN  IF t.timer = 0 THEN [t1 EXCEPT !.state = "Unloading"] ELSE t1

\* Truck::run, branch TruckState::Waiting
RunWaiting(t) ==
    LET t1 == [t EXCEPT !.timer = Dec16(@),
                        !.total_time = Add64(@, WAITING_INC)]
    IN  IF t1.timer = 0 THEN [t1 EXCEPT !.state = "Unloading"] ELSE t1

\* faulty variant: the unloading tick is not charged to the ledger
RunUnloading_Uncharged(t, stations, curr_idx) ==
    Outcome([t EXCEPT !.timer = TRAVEL_TIME,
                      !.state = "TravelMining"],
            [stations EXCEPT ![t.station_idx + 1] = increment_trucks_unloaded(@)],
            curr_idx)

\* faulty variant: the timer is not set for the travel to the mine
RunUnloading_KeepsTimer(t, stations, curr_idx) ==
    Outcome([t EXCEPT !.total_time = Add64(@, UNLOADING_INC),
                      !.state = "TravelMining"],
            [stations EXCEPT ![t.station_idx + 1] = increment_trucks_unloaded(@)],
            curr_idx)

\* faulty variant: the count of the station at the cursor is incremented
RunUnloading_AtCursor(t, stations, curr_idx) ==
    Outcome([t EXCEPT !.total_time = Add64(@, UNLOADING_INC),
                      !.timer = TRAVEL_TIME,
                      !.state = "TravelMining"],
            [stations EXCEPT ![curr_idx + 1] = increment_trucks_unloaded(@)],
            curr_idx)

\* faulty variant: the unloading truck also leaves the queue of its station
RunUnloading_LeavesQueue(t, stations, curr_idx) ==
    Outcome([t EXCEPT !.total_time = Add64(@, UNLOADING_INC),
                      !.timer = TRAVEL_TIME,
                      !.state = "TravelMining"],
            [stations EXCEPT ![t.station_idx + 1] =
                decrement_queue(increment_trucks_unloaded(@))],
            curr_idx)

\* Truck::run, branch TruckState::Unloading
RunUnloading(t, stations, curr_idx) ==
    Outcome([t EXCEPT !.total_time = Add64(@, UNLOADING_INC),
                      !.timer = TRAVEL_TIME,
                      !.state = "TravelMining"],
            [stations EXCEPT ![t.station_idx + 1] = increment_trucks_unloaded(@)],
            curr_idx)

\* faulty variant: the trip back to the mine is charged to the mining field
RunTravelMining_ChargesMining(t, d) ==
    LET t1 == [t EXCEPT !.timer = Dec16(@),
                        !.total_time = Add64(@, MINING_INC)]
    IN  IF t1.timer = 0
        THEN [t1 EXCEPT !.timer = d, !.state = "Mining"]
        ELSE t1

\* faulty variant: the truck is sent back to TravelStation
RunTravelMining_WrongState(t, d) ==
    LET t1 == [t EXCEPT !.timer = Dec16(@),
                        !.total_time = Add64(@, TRAVELING_INC)]
    IN  IF t1.timer = 0
        THEN [t1 EXCEPT !.timer = d, !.state = "TravelStation"]
        ELSE t1

\* Truck::run, branch TruckState::TravelMining; d is the value of rmt(gen)
RunTravelMining(t, d) ==
    LET t1 == [t EXCEPT !.timer = Dec16(@),
                        !.total_time = Add64(@, TRAVELING_INC)]
    IN  IF t1.timer = 0
        THEN [t1 EXCEPT !.timer = d, !.state = "Mining"]
        ELSE t1

\* faulty variant: the branch for TruckState::Waiting is missing
TruckRun_NoWaitingBranch(t, stations, curr_idx, d) ==
    IF t.state = "Mining" THEN Outcome(RunMining(t), stations, curr_idx)
    ELSE IF t.state = "TravelStation" THEN RunTravelStation(t, stations, curr_idx)
    ELSE IF t.state = "Unloading" THEN RunUnloading(t, stations, curr_idx)
    ELSE IF t.state = "TravelMining" THEN Outcome(RunTravelMining(t, d), stations, curr_idx)
    ELSE [Outcome(t, stations, curr_idx) EXCEPT !.thrown = TRUE]

\* Truck::run(stations, curr_idx) on truck t; d is the value rmt(gen) returns
\* if the call draws one.
TruckRun(t, stations, curr_idx, d) ==
    IF t.state = "Mining" THEN Outcome(RunMining(t), stations, curr_idx)
    ELSE IF t.state = "TravelStation" THEN RunTravelStation(t, stations, curr_idx)
    ELSE IF t.state = "Waiting" THEN Outcome(RunWaiting(t), stations, curr_idx)
    ELSE IF t.state = "Unloading" THEN RunUnloading(t, stations, curr_idx)
    ELSE IF t.state = "TravelMining" THEN Outcome(RunTravelMining(t, d), stations, curr_idx)
    ELSE [Outcome(t, stations, curr_idx) EXCEPT !.thrown = TRUE]

\* does this call of Truck::run draw from the random source
Draws(t) == t.state = "TravelMining" /\ Dec16(t.timer) = 0

\* does this call of Truck::run assign the truck to a station
Arrives(t) == t.state = "TravelStation" /\ Dec16(t.timer) = 0

(***************************************************************************)
(* Debug hooks (src/testing.cpp); TRUE when the hook throws                *)
(***************************************************************************)
MinQueue(stations) ==
    CHOOSE m \in {get_queue(stations[k]) : k \in 1..Len(stations)} :
        \A k \in 1..Len(stations) : m <= get_queue(stations[k])

\* faulty variant: the hook looks for the longest queue (max_element)
compare_idx_val_to_actual_min_Longest(stations, curr_idx) ==
    \E k \in 1..Len(stations) :
        get_queue(stations[k]) > get_queue(stations[curr_idx + 1])

compare_idx_val_to_actual_min(stations, curr_idx) ==
    MinQueue(stations) # get_queue(stations[curr_idx + 1])

cumulative_time(t) ==
    RETRIEVE_TIME(get_total_time(t), WAITING_MASK, 0) +
    RETRIEVE_TIME(get_total_time(t), UNLOADING_MASK, 16) +
    RETRIEVE_TIME(get_total_time(t), TRAVELING_MASK, 32) +
    RETRIEVE_TIME(get_total_time(t), MINING_MASK, 48)

compare_total_time_to_max_time(t, max_time) == cumulative_time(t) # max_time

(***************************************************************************)
(* Simulation                                                              *)
(***************************************************************************)
VARIABLES
    trucks,            \* Simulation::trucks
    stations,          \* Simulation::stations
    curr_station_idx,  \* Simulation::curr_station_idx (0-based)
    debug,             \* Simulation::debug
    sim_time,          \* local sim_time of run_sim
    pc,                \* position in run_sim
    truck_i,           \* position of the range-for over trucks (1-based)
    gen,               \* the generator: values drawn from it by Truck::run so far
    arrivals,          \* history: the trucks assigned to a station in the
                       \* current tick, in the order of their assignment
    ticks,             \* history: completed iterations of the while loop
    assigned,          \* history: per station, the assignments made at it
    phase,             \* history: per truck, its timer when it entered its
                       \* current state and its calls of run in that state
    calls,             \* history: per truck and state, the calls of run made
                       \* in that state
    line,              \* history: per station, the trucks assigned to it that
                       \* have not unloaded yet, in the order of assignment
    served,            \* history: per station, the Unloading calls made at
                       \* it in the current tick
    pool               \* the values the draws of this run are taken from

hist == <<arrivals, ticks, assigned, phase, calls, line, served>>

vars == <<trucks, stations, curr_station_idx, debug, sim_time, pc, truck_i, gen,
          pool, arrivals, ticks, assigned, phase, calls, line, served>>

\* s without the element x
RECURSIVE Without(_, _)
Without(s, x) ==
    IF s = <<>> THEN <<>>
    ELSE IF Head(s) = x THEN Without(Tail(s), x)
    ELSE <<Head(s)>> \o Without(Tail(s), x)

\* the history of a call of Truck::run on truck i with outcome r
Record(i, r) ==
    /\ arrivals' = IF Arrives(trucks[i]) THEN Append(arrivals, i) ELSE arrivals
    /\ assigned' = IF Arrives(trucks[i])
                   THEN [assigned EXCEPT ![curr_station_idx + 1] = @ + 1]
                   ELSE assigned
    /\ phase' = [phase EXCEPT ![i] =
                    IF r.truck.state # trucks[i].state
                    THEN [entry |-> r.truck.timer, spent |-> 0]
                    ELSE [@ EXCEPT !.spent = @ + 1]]
    /\ ticks' = ticks
    /\ calls' = [calls EXCEPT ![i][trucks[i].state] = @ + 1]
    /\ line' = IF Arrives(trucks[i])
               THEN [line EXCEPT ![curr_station_idx + 1] = Append(@, i)]
               ELSE IF trucks[i].state = "Unloading"
               THEN [line EXCEPT ![trucks[i].station_idx + 1] = Without(@, i)]
               ELSE line
    /\ served' = IF trucks[i].state = "Unloading"
                 THEN [served EXCEPT ![trucks[i].station_idx + 1] = @ + 1]
                 ELSE served

\* the history of the end of an iteration of the while loop
EndTick ==
    /\ arrivals' = <<>>
    /\ ticks' = ticks + 1
    /\ served' = [k \in 1..Len(stations) |-> 0]
    /\ UNCHANGED <<assigned, phase, calls, line>>

\* the values the next draw of Truck::run can return: any value of the
\* run's pool for the first MaxRedraws draws, ONE_HOUR afterwards
NextDraw(g) == IF g < MaxRedraws THEN pool ELSE {ONE_HOUR}

\* Simulation::Simulation followed by the entry of run_sim, the draws taken
\* from the set p
Construct(p) ==
    /\ pool = p
    /\ \E n \in 1..MaxTrucks : trucks \in [1..n -> {Truck(d) : d \in p}]
    /\ \E m \in 1..MaxStations : stations = [k \in 1..m |-> Station]
    /\ curr_station_idx = 0
    /\ debug \in BOOLEAN
    /\ sim_time = MAX_TIME
    /\ pc = IF MAX_TIME # 0 THEN "trucks" ELSE "report"
    /\ truck_i = 1
    /\ gen = 0
    /\ arrivals = <<>>
    /\ ticks = 0
    /\ assigned = [k \in 1..Len(stations) |-> 0]
    /\ phase = [i \in 1..Len(trucks) |-> [entry |-> trucks[i].timer, spent |-> 0]]
    /\ calls = [i \in 1..Len(trucks) |-> [st \in TruckState |-> 0]]
    /\ line = [k \in 1..Len(stations) |-> <<>>]
    /\ served = [k \in 1..Len(stations) |-> 0]

\* runs that draw from the low end of the range
Init == Construct(LowDraws)

\* runs that draw from either end of the range
InitRange == Construct(LowDraws) \/ Construct(HighDraws)

\* faulty variant: the queues are decremented inside the loop over trucks
RunTruck_DecrementsInside ==
    /\ pc = "trucks"
    /\ \E d \in (IF Draws(trucks[truck_i]) THEN NextDraw(gen) ELSE {ONE_HOUR}) :
        /\ gen' = IF Draws(trucks[truck_i]) THEN gen + 1 ELSE gen
        /\ LET r == TruckRun(trucks[truck_i], stations, curr_station_idx, d)
           IN  /\ Record(truck_i, r)
               /\ trucks' = [trucks EXCEPT ![truck_i] = r.truck]
               /\ stations' = [k \in 1..Len(stations) |-> decrement_queue(r.stations[k])]
               /\ curr_station_idx' = r.curr_idx
               /\ IF truck_i = Len(trucks)
                  THEN pc' = "decrement" /\ truck_i' = 1
                  ELSE pc' = "trucks" /\ truck_i' = truck_i + 1
    /\ UNCHANGED <<debug, sim_time, pool>>

\* one iteration of the for loop over trucks in run_sim: truck.run and the
\* debug hook
RunTruck ==
    /\ pc = "trucks"
    /\ \E d \in (IF Draws(trucks[truck_i]) THEN NextDraw(gen) ELSE {ONE_HOUR}) :
        /\ gen' = IF Draws(trucks[truck_i]) THEN gen + 1 ELSE gen
        /\ LET r == TruckRun(trucks[truck_i], stations, curr_station_idx, d)
               hook == debug /\ ~r.thrown /\
                       compare_idx_val_to_actual_min(r.stations, r.curr_idx)
           IN  /\ Record(truck_i, r)
               /\ trucks' = [trucks EXCEPT ![truck_i] = r.truck]
               /\ stations' = r.stations
               /\ curr_station_idx' = r.curr_idx
               /\ IF r.thrown \/ hook
                  THEN pc' = "aborted" /\ truck_i' = truck_i
                  ELSE IF truck_i = Len(trucks)
                       THEN pc' = "decrement" /\ truck_i' = 1
                       ELSE pc' = "trucks" /\ truck_i' = truck_i + 1
    /\ UNCHANGED <<debug, sim_time, pool>>

\* faulty variant: the loop is left one iteration early
DecrementQueues_EarlyExit ==
    /\ pc = "decrement"
    /\ stations' = [k \in 1..Len(stations) |-> decrement_queue(stations[k])]
    /\ sim_time' = sim_time - 1
    /\ pc' = IF sim_time' > 1 THEN "trucks" ELSE "report"
    /\ EndTick
    /\ UNCHANGED <<trucks, curr_station_idx, debug, truck_i, gen, pool>>

\* faulty variant: the queues are not decremented
DecrementQueues_NoDecrement ==
    /\ pc = "decrement"
    /\ sim_time' = sim_time - 1
    /\ pc' = IF sim_time' # 0 THEN "trucks" ELSE "report"
    /\ EndTick
    /\ UNCHANGED <<trucks, stations, curr_station_idx, debug, truck_i, gen, pool>>

\* the end of one iteration of the while loop: the uniform decrement of
\* every queue, sim_time-- and the loop test
DecrementQueues ==
    /\ pc = "decrement"
    /\ stations' = [k \in 1..Len(stations) |-> decrement_queue(stations[k])]
    /\ sim_time' = sim_time - 1
    /\ pc' = IF sim_time' # 0 THEN "trucks" ELSE "report"
    /\ EndTick
    /\ UNCHANGED <<trucks, curr_station_idx, debug, truck_i, gen, pool>>

\* the reporting loops after the while loop, with the debug hook on every
\* truck's ledger
Report ==
    /\ pc = "report"
    /\ pc' = IF debug /\ \E i \in 1..Len(trucks) :
                    compare_total_time_to_max_time(trucks[i], MAX_TIME)
             THEN "aborted" ELSE "done"
    /\ UNCHANGED <<trucks, stations, curr_station_idx, debug, sim_time, truck_i, gen,
                   pool>>
    /\ UNCHANGED hist

Next == RunTruck \/ DecrementQueues \/ Report

Spec == Init /\ [][Next]_vars

\* run_sim is the only thread and never blocks: a step that can be taken is
\* taken
FairSpec == Spec /\ WF_vars(Next)

\* the runs that draw from either end of the range of rmt
SpecRange == InitRange /\ [][Next]_vars

(***************************************************************************)
(* Properties                                                              *)
(***************************************************************************)
NumTrucks == Len(trucks)
NumStations == Len(stations)

Ledger(t) == <<Waiting(t), Unloading(t), Traveling(t), Mining(t)>>

LedgerSum(t) == Waiting(t) + Unloading(t) + Traveling(t) + Mining(t)

\* the call of Truck::run on truck i is the step being taken
Running(i) == pc = "trucks" /\ truck_i = i /\ trucks'[i] # trucks[i]

\* b is a with exactly one field increased by exactly 1
OneFieldCharged(a, b) ==
    \E f \in 1..4 : /\ b[f] = a[f] + 1
                    /\ \A g \in (1..4) \ {f} : b[g] = a[g]

\* C1: once all MAX_TIME ticks have run, every truck's four ledger fields,
\* decoded from the packed total_time, sum to exactly MAX_TIME, and the debug
\* hook compare_total_time_to_max_time has not thrown.
C1_LedgerSumIsHorizon ==
    sim_time = 0 =>
        /\ pc # "aborted"
        /\ \A i \in 1..NumTrucks : LedgerSum(trucks[i]) = MAX_TIME

C1_Witness ==
    /\ pc = "done"
    /\ debug
    /\ NumTrucks = 3
    /\ \E i \in 1..NumTrucks : Waiting(trucks[i]) > 0

\* C2: the Truck::run call of a tick increases exactly one ledger field of
\* the truck it runs on by exactly 1 and leaves the other three unchanged; no
\* other step changes a ledger.
C2_OneFieldPerTick ==
    [][\A i \in 1..NumTrucks :
          IF pc = "trucks" /\ truck_i = i
          THEN OneFieldCharged(Ledger(trucks[i]), Ledger(trucks'[i]))
          ELSE Ledger(trucks'[i]) = Ledger(trucks[i])]_vars

C2_Witness ==
    \E i \in 1..NumTrucks :
        /\ Waiting(trucks[i]) > 0
        /\ Unloading(trucks[i]) > 0
        /\ Traveling(trucks[i]) > TRAVEL_TIME
        /\ Mining(trucks[i]) > ONE_HOUR

\* C3: when a truck completes TravelStation, the station it is assigned to is
\* the one at the cursor, and that station's queue before the increment is
\* the minimum over all stations' queues at that moment.
C3_AssignedToShortestQueue ==
    [][\A i \in 1..NumTrucks :
          (pc = "trucks" /\ truck_i = i /\ Arrives(trucks[i])) =>
              /\ trucks'[i].station_idx = curr_station_idx
              /\ get_queue(stations[curr_station_idx + 1]) = MinQueue(stations)
              /\ get_queue(stations'[curr_station_idx + 1]) =
                     get_queue(stations[curr_station_idx + 1]) + 1]_vars

C3_Witness ==
    /\ NumStations = 2
    /\ \E i \in 1..NumTrucks :
        /\ trucks[i].state = "Waiting"
        /\ trucks[i].station_idx = 1
    /\ \E j \in 1..Len(arrivals) : trucks[arrivals[j]].station_idx = 0

\* C4: after every truck transition of run_sim the queue of the station at
\* curr_station_idx is the minimum queue over all stations, and the debug
\* hook compare_idx_val_to_actual_min has not thrown.
C4_CursorAtMinimum ==
    /\ get_queue(stations[curr_station_idx + 1]) = MinQueue(stations)
    /\ pc = "aborted" => sim_time = 0

C4_Witness ==
    /\ pc = "decrement"
    /\ debug
    /\ NumStations = 2
    /\ get_queue(stations[1]) = 2
    /\ get_queue(stations[2]) = 1
    /\ curr_station_idx = 1

\* C5: a station's queue never wraps below 0: the uniform decrement leaves a
\* queue of 0 at 0 and takes a queue q > 0 to q - 1, and no queue ever
\* exceeds the number of trucks.
C5_SaturatingDecrement ==
    [][/\ pc = "decrement" =>
            \A k \in 1..NumStations :
                get_queue(stations'[k]) =
                    IF get_queue(stations[k]) = 0 THEN 0
                    ELSE get_queue(stations[k]) - 1
       /\ \A k \in 1..NumStations : get_queue(stations'[k]) <= NumTrucks]_vars

C5_Witness ==
    /\ pc = "trucks"
    /\ truck_i = 1
    /\ sim_time < MAX_TIME
    /\ \E k \in 1..NumStations : get_queue(stations[k]) = 0
    /\ \E k \in 1..NumStations : get_queue(stations[k]) > 0

RECURSIVE SumUnloaded(_)
SumUnloaded(n) ==
    IF n = 0 THEN 0 ELSE stations[n].num_trucks_unloaded + SumUnloaded(n - 1)

RECURSIVE SumUnloadingTicks(_)
SumUnloadingTicks(n) ==
    IF n = 0 THEN 0 ELSE Unloading(trucks[n]) + SumUnloadingTicks(n - 1)

\* the shortest full cycle: shortest mining phase, travel, one unloading
\* tick, travel
MinCycle == ONE_HOUR + TRAVEL_TIME + 1 + TRAVEL_TIME

\* C6: a truck that completes TravelStation at a station whose queue is 0
\* goes to Unloading and its Waiting field is not charged, neither by the
\* arrival nor by its next call, which is its unloading; a truck that reads a
\* queue q > 0 goes to Waiting.
C6_ZeroWaitSkipsWaiting ==
    [][\A i \in 1..NumTrucks :
          (pc = "trucks" /\ truck_i = i) =>
              /\ (Arrives(trucks[i]) /\ get_queue(stations[curr_station_idx + 1]) = 0) =>
                    /\ trucks'[i].state = "Unloading"
                    /\ Waiting(trucks'[i]) = Waiting(trucks[i])
              /\ (Arrives(trucks[i]) /\ get_queue(stations[curr_station_idx + 1]) > 0) =>
                    trucks'[i].state = "Waiting"
              /\ trucks[i].state = "Unloading" =>
                    /\ trucks'[i].state = "TravelMining"
                    /\ Unloading(trucks'[i]) = Unloading(trucks[i]) + 1
                    /\ Waiting(trucks'[i]) = Waiting(trucks[i])]_vars

C6_Witness ==
    /\ pc = "decrement"
    /\ \E i \in 1..NumTrucks :
        /\ trucks[i].state = "TravelMining"
        /\ trucks[i].timer = TRAVEL_TIME
        /\ Waiting(trucks[i]) = 0
        /\ Unloading(trucks[i]) = 2
    /\ \E j \in 1..NumTrucks : trucks[j].state = "Waiting"

\* C7: in every reachable state the sum over all stations of the unloaded
\* count equals the number of Unloading ticks executed by the fleet, i.e. the
\* sum over all trucks of the Unloading ledger field.
C7_UnloadedEqualsUnloadingTicks ==
    SumUnloaded(NumStations) = SumUnloadingTicks(NumTrucks)

C7_Witness ==
    /\ pc = "done"
    /\ NumStations = 2
    /\ NumTrucks = 3
    /\ stations[1].num_trucks_unloaded > 0
    /\ stations[2].num_trucks_unloaded > 0
    /\ \E i \in 1..NumTrucks : Unloading(trucks[i]) > 1

\* C8: at the end of the run the sum over all stations of the unloaded count
\* is at most fleet_size * floor(MAX_TIME / MinCycle), MinCycle = 25.
C8_UnloadedBound ==
    sim_time = 0 =>
        SumUnloaded(NumStations) <= NumTrucks * (MAX_TIME \div MinCycle)

C8_Witness ==
    /\ pc = "done"
    /\ NumTrucks = 3
    /\ SumUnloaded(NumStations) = NumTrucks * (MAX_TIME \div MinCycle)

\* C9: at a single station whose queue was empty at the start of the tick,
\* the j-th truck (j = 0, 1, ...) assigned in the tick receives wait timer j:
\* the first goes to Unloading, the others to Waiting; and a truck in Waiting
\* with timer 1 is charged one Waiting tick and is then in Unloading.
C9_SameTickArrivals ==
    [][/\ (NumStations = 1 /\ pc' # "aborted" /\ get_queue(stations'[1]) = Len(arrivals')) =>
            \A j \in 1..Len(arrivals') :
                /\ trucks'[arrivals'[j]].timer = j - 1
                /\ trucks'[arrivals'[j]].state =
                        IF j = 1 THEN "Unloading" ELSE "Waiting"
                /\ \A k \in 1..(j - 1) : arrivals'[k] < arrivals'[j]
       /\ \A i \in 1..NumTrucks :
            (pc = "trucks" /\ truck_i = i /\ trucks[i].state = "Waiting"
                /\ trucks[i].timer = 1) =>
                    /\ trucks'[i].state = "Unloading"
                    /\ Waiting(trucks'[i]) = Waiting(trucks[i]) + 1]_vars

C9_Witness ==
    /\ NumStations = 1
    /\ pc = "decrement"
    /\ Len(arrivals) = 3
    /\ get_queue(stations[1]) = 3
    /\ trucks[3].state = "Waiting"
    /\ trucks[3].timer = 2

\* C10: a truck in Mining with timer 1 is, after its call, in TravelStation
\* with timer TRAVEL_TIME, its Mining field increased by 1 and its other
\* fields unchanged; a truck in Mining with timer > 1 stays in Mining with
\* its timer decreased by 1.
C10_MiningCompletion ==
    [][\A i \in 1..NumTrucks :
          (pc = "trucks" /\ truck_i = i /\ trucks[i].state = "Mining") =>
              /\ Ledger(trucks'[i]) =
                    [Ledger(trucks[i]) EXCEPT ![4] = @ + 1]
              /\ trucks[i].timer = 1 =>
                    /\ trucks'[i].state = "TravelStation"
                    /\ trucks'[i].timer = TRAVEL_TIME
              /\ trucks[i].timer > 1 =>
                    /\ trucks'[i].state = "Mining"
                    /\ trucks'[i].timer = trucks[i].timer - 1]_vars

C10_Witness ==
    \E i \in 1..NumTrucks :
        /\ trucks[i].state = "TravelStation"
        /\ trucks[i].timer = TRAVEL_TIME
        /\ Ledger(trucks[i]) = <<0, 0, 0, ONE_HOUR>>

\* C12: run_sim terminates, and it does so after exactly MAX_TIME
\* iterations of its loop: the loop is left when and only when the
\* remaining-ticks counter is zero, and no run is aborted.
C12_TerminatesAfterHorizon ==
    /\ <>(pc = "done")
    /\ [](/\ pc # "aborted"
          /\ ticks + sim_time = MAX_TIME
          /\ pc \in {"report", "done"} <=> sim_time = 0
          /\ pc \in {"report", "done"} => ticks = MAX_TIME)

C12_Witness ==
    /\ pc = "done"
    /\ ticks = MAX_TIME
    /\ ~debug
    /\ NumTrucks = 3
    /\ NumStations = 2

\* C13: in each tick Truck::run is invoked exactly once for every truck, in
\* index order, and only then is the uniform decrement applied, once, to
\* every station: while the loop is at truck i, exactly the trucks before i
\* have been charged this tick's call, a step of the loop over trucks changes
\* only the truck it is at and no queue but that of an assignment, and the
\* decrement step changes no truck and acts on every station.
C13_TrucksThenDecrement ==
    /\ [](\A j \in 1..NumTrucks :
            LedgerSum(trucks[j]) =
                IF pc = "decrement" \/ (pc = "trucks" /\ j < truck_i)
                THEN ticks + 1 ELSE ticks)
    /\ [][/\ pc = "trucks" =>
                /\ \A j \in (1..NumTrucks) \ {truck_i} : trucks'[j] = trucks[j]
                /\ trucks'[truck_i] # trucks[truck_i]
                /\ \A k \in 1..NumStations :
                        get_queue(stations'[k]) =
                            IF Arrives(trucks[truck_i]) /\ k = curr_station_idx + 1
                            THEN get_queue(stations[k]) + 1
                            ELSE get_queue(stations[k])
                /\ ticks' = ticks
                /\ IF truck_i = NumTrucks
                   THEN pc' = "decrement"
                   ELSE pc' = "trucks" /\ truck_i' = truck_i + 1
          /\ pc = "decrement" =>
                /\ trucks' = trucks
                /\ \A k \in 1..NumStations :
                        stations'[k] = decrement_queue(stations[k])
                /\ ticks' = ticks + 1
                /\ truck_i' = 1]_vars

C13_Witness ==
    /\ pc = "trucks"
    /\ truck_i = 3
    /\ ticks > ONE_HOUR + TRAVEL_TIME
    /\ \E k \in 1..NumStations : get_queue(stations[k]) = 2
    /\ Len(arrivals) = 2

RECURSIVE SumAssigned(_)
SumAssigned(n) == IF n = 0 THEN 0 ELSE assigned[n] + SumAssigned(n - 1)

\* C14: assignments are strictly round-robin: an assignment records the
\* cursor as the truck's station, increments exactly that station's queue by
\* 1 and moves the cursor to (cursor + 1) mod station_count; the cursor stays
\* in 0..station_count-1, the k-th assignment of the run (k = 0, 1, ...) goes
\* to station k mod station_count, and the numbers of assignments of two
\* stations differ by at most 1.
C14_RoundRobin ==
    /\ [](/\ curr_station_idx \in 0..(NumStations - 1)
          /\ curr_station_idx = SumAssigned(NumStations) % NumStations
          /\ \A k \in 1..NumStations :
                assigned[k] = (SumAssigned(NumStations) \div NumStations) +
                              (IF k - 1 < SumAssigned(NumStations) % NumStations
                               THEN 1 ELSE 0)
          /\ \A k, l \in 1..NumStations :
                assigned[k] - assigned[l] \in {-1, 0, 1})
    /\ [][\A i \in 1..NumTrucks :
            (pc = "trucks" /\ truck_i = i) =>
                IF Arrives(trucks[i])
                THEN /\ trucks'[i].station_idx = curr_station_idx
                     /\ curr_station_idx' = (curr_station_idx + 1) % NumStations
                     /\ \A k \in 1..NumStations :
                            get_queue(stations'[k]) =
                                IF k = curr_station_idx + 1
                                THEN get_queue(stations[k]) + 1
                                ELSE get_queue(stations[k])
                ELSE curr_station_idx' = curr_station_idx]_vars

C14_Witness ==
    /\ NumStations = 2
    /\ NumTrucks = 3
    /\ assigned[1] = 5
    /\ assigned[2] = 4
    /\ curr_station_idx = 1

\* C15: every truck's state is one of the five enumerated states in every
\* reachable state, and no run is aborted by the unknown-state error of
\* Truck::run.
C15_NoUnknownState ==
    /\ \A i \in 1..NumTrucks : trucks[i].state \in TruckState
    /\ pc # "aborted"

C15_Witness ==
    /\ NumTrucks = 3
    /\ trucks[1].state = "TravelMining"
    /\ trucks[2].state = "Unloading"
    /\ trucks[3].state = "Waiting"
    /\ pc = "decrement"

\* the trucks other than i that are in Waiting or Unloading at station s
\* (0-based)
AtStation(i, s) ==
    {j \in (1..NumTrucks) \ {i} :
        /\ trucks[j].station_idx = s
        /\ trucks[j].state \in {"Waiting", "Unloading"}}

\* those of them that do not unload in the current tick: the trucks in
\* Waiting, and the trucks in Unloading that have already been run in this
\* tick
AheadAtStation(i, s) ==
    {j \in AtStation(i, s) : trucks[j].state = "Waiting" \/ j < i}

\* C16 as claimed: the queue value a truck reads on its assignment to
\* station s equals the number of other trucks in Waiting or Unloading at s.
C16_QueueCountsWaitingAndUnloading ==
    [][\A i \in 1..NumTrucks :
          (pc = "trucks" /\ truck_i = i /\ Arrives(trucks[i])) =>
              /\ trucks'[i].timer = get_queue(stations[curr_station_idx + 1])
              /\ get_queue(stations[curr_station_idx + 1]) =
                    Cardinality(AtStation(i, curr_station_idx))]_vars

\* C16 amended: the queue value a truck reads on its assignment to station s
\* becomes its wait timer and equals the number of other trucks assigned to
\* s that do not unload in the current tick: the trucks in Waiting at s and
\* the trucks in Unloading at s that were run earlier in this tick.
C16_QueueCountsTrucksAhead ==
    [][\A i \in 1..NumTrucks :
          (pc = "trucks" /\ truck_i = i /\ Arrives(trucks[i])) =>
              /\ trucks'[i].timer = get_queue(stations[curr_station_idx + 1])
              /\ get_queue(stations[curr_station_idx + 1]) =
                    Cardinality(AheadAtStation(i, curr_station_idx))]_vars

C16_Witness ==
    /\ pc = "trucks"
    /\ Len(arrivals) = 1
    /\ truck_i = arrivals[1] + 1
    /\ trucks[arrivals[1]].timer = 0
    /\ \E j \in 1..NumTrucks :
        /\ j > arrivals[1]
        /\ trucks[j].state = "Unloading"
        /\ trucks[j].station_idx = trucks[arrivals[1]].station_idx

\* C17: a truck in Unloading when it is run has timer 0; that call adds 1
\* to its Unloading field and to no other field, adds 1 to the unloaded
\* count of its station, sets its timer to TRAVEL_TIME and moves it to
\* TravelMining, so no truck is in Unloading for two consecutive calls.
C17_UnloadingTakesOneTick ==
    [][\A i \in 1..NumTrucks :
          (pc = "trucks" /\ truck_i = i /\ trucks[i].state = "Unloading") =>
              /\ trucks[i].timer = 0
              /\ phase[i].spent = 0
              /\ Ledger(trucks'[i]) = [Ledger(trucks[i]) EXCEPT ![2] = @ + 1]
              /\ stations'[trucks[i].station_idx + 1].num_trucks_unloaded =
                    stations[trucks[i].station_idx + 1].num_trucks_unloaded + 1
              /\ trucks'[i].timer = TRAVEL_TIME
              /\ trucks'[i].state = "TravelMining"]_vars

C17_Witness ==
    /\ pc = "trucks"
    /\ \E i \in 1..NumTrucks :
        /\ i < truck_i
        /\ trucks[i].state = "TravelMining"
        /\ trucks[i].timer = TRAVEL_TIME
        /\ Unloading(trucks[i]) = 3
        /\ Waiting(trucks[i]) = 2

TimedStates == {"Mining", "TravelStation", "Waiting", "TravelMining"}

\* C18: each timed phase lasts exactly its timer: a truck leaves Mining,
\* TravelStation, Waiting or TravelMining in the call that completes as many
\* consecutive calls in that state as its timer was on entry, and not
\* before; that timer is TRAVEL_TIME for both travel states, a drawn duration
\* for Mining and the queue value read on arrival, > 0, for Waiting; a truck
\* leaving Waiting, or arriving at queue 0, is in Unloading and unloads in
\* its next call.
C18_PhaseLastsItsTimer ==
    /\ [](\A i \in 1..NumTrucks :
            /\ trucks[i].state \in {"TravelStation", "TravelMining"} =>
                    phase[i].entry = TRAVEL_TIME
            /\ trucks[i].state = "Mining" =>
                    phase[i].entry \in ONE_HOUR..FIVE_HOUR
            /\ trucks[i].state = "Waiting" => phase[i].entry >= 1
            /\ trucks[i].state = "Unloading" => phase[i].spent = 0)
    /\ [][\A i \in 1..NumTrucks :
            (pc = "trucks" /\ truck_i = i) =>
                /\ trucks[i].state \in TimedStates =>
                      IF trucks'[i].state # trucks[i].state
                      THEN phase[i].spent + 1 = phase[i].entry
                      ELSE phase[i].spent + 1 < phase[i].entry
                /\ (Arrives(trucks[i]) /\ trucks'[i].state = "Waiting") =>
                      phase'[i].entry = get_queue(stations[curr_station_idx + 1])
                /\ (trucks[i].state = "Waiting" /\ trucks'[i].state # "Waiting") =>
                      trucks'[i].state = "Unloading"
                /\ trucks[i].state = "Unloading" =>
                      Unloading(trucks'[i]) = Unloading(trucks[i]) + 1]_vars

C18_Witness ==
    \E i \in 1..NumTrucks :
        /\ trucks[i].state = "Unloading"
        /\ Waiting(trucks[i]) = 2
        /\ Mining(trucks[i]) = 2 * ONE_HOUR + 1
        /\ Traveling(trucks[i]) = 3 * TRAVEL_TIME

\* the states a truck can be in after a call made in state st
Successors(st) ==
    IF st = "Mining" THEN {"Mining", "TravelStation"}
    ELSE IF st = "TravelStation" THEN {"TravelStation", "Waiting", "Unloading"}
    ELSE IF st = "Waiting" THEN {"Waiting", "Unloading"}
    ELSE IF st = "Unloading" THEN {"Unloading", "TravelMining"}
    ELSE IF st = "TravelMining" THEN {"TravelMining", "Mining"}
    ELSE {}

\* C19: a truck's state changes only along the cycle Mining ->
\* TravelStation -> (Waiting ->) Unloading -> TravelMining -> Mining: after
\* any step it is the state itself or the next state of the cycle, and
\* Waiting is entered only from TravelStation.
C19_StateCycle ==
    [][\A i \in 1..NumTrucks :
          /\ trucks'[i].state \in Successors(trucks[i].state)
          /\ (trucks'[i].state = "Waiting" /\ trucks[i].state # "Waiting") =>
                trucks[i].state = "TravelStation"]_vars

C19_Witness ==
    \E i \in 1..NumTrucks :
        /\ trucks[i].state = "Mining"
        /\ Mining(trucks[i]) = ONE_HOUR + 1
        /\ Waiting(trucks[i]) = 1
        /\ Unloading(trucks[i]) = 1
        /\ Traveling(trucks[i]) = 2 * TRAVEL_TIME

\* C20: the station index a truck records when TravelStation completes is
\* the station whose queue that call incremented; it is always in
\* 0..station_count-1 and no other step changes it; and the truck's
\* Unloading call increments the unloaded count of that station by 1 and
\* changes no other station's count, and no other step changes a count.
C20_UnloadsWhereAssigned ==
    /\ [](\A i \in 1..NumTrucks : trucks[i].station_idx \in 0..(NumStations - 1))
    /\ [][\A i \in 1..NumTrucks :
            IF pc = "trucks" /\ truck_i = i /\ Arrives(trucks[i])
            THEN /\ get_queue(stations'[trucks'[i].station_idx + 1]) =
                        get_queue(stations[trucks'[i].station_idx + 1]) + 1
                 /\ \A k \in 1..NumStations :
                        stations'[k].num_trucks_unloaded = stations[k].num_trucks_unloaded
            ELSE /\ trucks'[i].station_idx = trucks[i].station_idx
                 /\ (pc = "trucks" /\ truck_i = i) =>
                        \A k \in 1..NumStations :
                            stations'[k].num_trucks_unloaded =
                                IF trucks[i].state = "Unloading"
                                    /\ k = trucks[i].station_idx + 1
                                THEN stations[k].num_trucks_unloaded + 1
                                ELSE stations[k].num_trucks_unloaded
                 /\ pc # "trucks" =>
                        \A k \in 1..NumStations :
                            stations'[k].num_trucks_unloaded =
                                stations[k].num_trucks_unloaded]_vars

C20_Witness ==
    /\ NumStations = 2
    /\ pc = "trucks"
    /\ curr_station_idx = 0
    /\ \E i \in 1..NumTrucks :
        /\ i < truck_i
        /\ trucks[i].state = "TravelMining"
        /\ trucks[i].timer = TRAVEL_TIME
        /\ trucks[i].station_idx = 1
        /\ stations[2].num_trucks_unloaded >= 2

(***************************************************************************)
(* C21: every mining phase lasts a number of ticks drawn from              *)
(* [ONE_HOUR, FIVE_HOUR] = [12, 60], and a truck that is in Mining has a   *)
(* timer between 1 and FIVE_HOUR.                                          *)
(***************************************************************************)
C21_MiningTimerInRange ==
    \A i \in 1..NumTrucks :
        trucks[i].state = "Mining" =>
            /\ phase[i].entry \in ONE_HOUR..FIVE_HOUR
            /\ trucks[i].timer \in 1..FIVE_HOUR
            /\ trucks[i].timer = phase[i].entry - phase[i].spent

C21_Witness ==
    /\ pool = HighDraws
    /\ gen > 0
    /\ \E i \in 1..NumTrucks :
        /\ trucks[i].state = "Mining"
        /\ calls[i]["Unloading"] > 0
        /\ phase[i].entry = FIVE_HOUR
        /\ trucks[i].timer = 1

(***************************************************************************)
(* C22: the unloaded count of a station never decreases, and               *)
(* decrement_queue and increment_queue leave it unchanged: neither the     *)
(* decrement of the queues at the end of a tick nor the arrival of a truck *)
(* changes the unloaded count of any station.                              *)
(***************************************************************************)
C22_UnloadedNeverDecreases ==
    [][\A k \in 1..NumStations :
        /\ stations'[k].num_trucks_unloaded >= stations[k].num_trucks_unloaded
        /\ decrement_queue(stations[k]).num_trucks_unloaded =
               stations[k].num_trucks_unloaded
        /\ increment_queue(stations[k]).num_trucks_unloaded =
               stations[k].num_trucks_unloaded
        /\ pc = "decrement" =>
               stations'[k].num_trucks_unloaded = stations[k].num_trucks_unloaded
        /\ pc = "trucks" /\ Arrives(trucks[truck_i]) =>
               stations'[k].num_trucks_unloaded = stations[k].num_trucks_unloaded]_vars

C22_Witness ==
    /\ pc = "trucks"
    /\ truck_i = 1
    /\ ticks > 0
    /\ \E k \in 1..NumStations :
        /\ stations[k].num_trucks_unloaded > 0
        /\ stations[k].queue > 0
        /\ \E i \in 1..NumTrucks :
            /\ trucks[i].state = "Waiting"
            /\ trucks[i].station_idx = k - 1
            /\ phase[i].spent > 0

\* the queues of all stations
Queues(st) == [k \in 1..Len(st) |-> st[k].queue]

\* the unloaded counts of all stations
UnloadedCounts(st) == [k \in 1..Len(st) |-> st[k].num_trucks_unloaded]

(***************************************************************************)
(* C23: a call of Truck::run changes no other truck.  In Mining, Waiting   *)
(* and TravelMining, and in TravelStation when the timer does not reach 0, *)
(* it leaves every queue, every unloaded count and the cursor unchanged;   *)
(* in Unloading it leaves every queue and the cursor unchanged; on an      *)
(* arrival it leaves every unloaded count and the queue of every station   *)
(* other than the one at the cursor unchanged.                             *)
(***************************************************************************)
C23_RunFrame ==
    [][pc = "trucks" =>
        LET t == trucks[truck_i]
        IN  /\ Len(trucks') = Len(trucks)
            /\ Len(stations') = Len(stations)
            /\ \A j \in 1..NumTrucks : j # truck_i => trucks'[j] = trucks[j]
            /\ t.state \in {"Mining", "Waiting", "TravelMining"} \/
               (t.state = "TravelStation" /\ ~Arrives(t)) =>
                   /\ stations' = stations
                   /\ curr_station_idx' = curr_station_idx
            /\ t.state = "Unloading" =>
                   /\ Queues(stations') = Queues(stations)
                   /\ curr_station_idx' = curr_station_idx
            /\ Arrives(t) =>
                   /\ UnloadedCounts(stations') = UnloadedCounts(stations)
                   /\ \A k \in 1..NumStations :
                          k # curr_station_idx + 1 =>
                              stations'[k].queue = stations[k].queue]_vars

C23_Witness ==
    /\ pc = "trucks"
    /\ NumStations = 2
    /\ curr_station_idx = 1
    /\ \E i \in 1..NumTrucks :
        /\ i < truck_i
        /\ trucks[i].state = "TravelMining"
        /\ trucks[i].timer = TRAVEL_TIME
        /\ stations[trucks[i].station_idx + 1].queue > 0
        /\ \E j \in 1..NumTrucks :
            /\ trucks[j].state = "Waiting"
            /\ trucks[j].station_idx = trucks[i].station_idx

\* four counters kept independently of the ledger: the calls of run made on
\* truck i in Waiting, in Unloading, in either travel state and in Mining
Counters(i) ==
    <<calls[i]["Waiting"], calls[i]["Unloading"],
      calls[i]["TravelStation"] + calls[i]["TravelMining"], calls[i]["Mining"]>>

(***************************************************************************)
(* C24: within the horizon no field of the packed ledger overflows: every  *)
(* field is at most MAX_TIME = 864 < 65536, no addition carries into the   *)
(* neighbouring field, and decoding the ledger gives the same four values  *)
(* as four counters kept independently.                                    *)
(***************************************************************************)
C24_LedgerFieldsAreCounters ==
    \A i \in 1..NumTrucks :
        /\ Ledger(trucks[i]) = Counters(i)
        /\ get_total_time(trucks[i]) = Counters(i)
        /\ \A f \in 1..4 : Counters(i)[f] <= MAX_TIME /\ MAX_TIME < Two16

C24_Witness ==
    /\ pc = "done"
    /\ \E i \in 1..NumTrucks :
        /\ Waiting(trucks[i]) > 0
        /\ Unloading(trucks[i]) > 0
        /\ Traveling(trucks[i]) > 255
        /\ Mining(trucks[i]) > 255
        /\ LedgerSum(trucks[i]) = MAX_TIME

(***************************************************************************)
(* C25: the Traveling field counts the ticks of both travel states: a call *)
(* of run in TravelStation or in TravelMining adds 1 to it and to no other *)
(* field, a call in any other state leaves it alone, and its value is the  *)
(* number of calls made in TravelStation plus those made in TravelMining.  *)
(***************************************************************************)
C25_TravelingCountsBothTrips ==
    [][pc = "trucks" =>
        LET t == trucks[truck_i]
            u == trucks'[truck_i]
        IN  /\ Traveling(t) = calls[truck_i]["TravelStation"] +
                              calls[truck_i]["TravelMining"]
            /\ t.state \in {"TravelStation", "TravelMining"} =>
                   /\ Traveling(u) = Traveling(t) + 1
                   /\ Waiting(u) = Waiting(t)
                   /\ Unloading(u) = Unloading(t)
                   /\ Mining(u) = Mining(t)
            /\ t.state \notin {"TravelStation", "TravelMining"} =>
                   Traveling(u) = Traveling(t)]_vars

C25_Witness ==
    \E i \in 1..NumTrucks :
        /\ trucks[i].state = "Mining"
        /\ calls[i]["TravelStation"] = 2 * TRAVEL_TIME
        /\ calls[i]["TravelMining"] = 2 * TRAVEL_TIME
        /\ Traveling(trucks[i]) = 4 * TRAVEL_TIME

\* the step run_sim takes from the current state when debug is false: the
\* loop over trucks without the hook, and the report without the hook
StepWithoutDebug ==
    /\ pc = "trucks" =>
        \E d \in (IF Draws(trucks[truck_i]) THEN NextDraw(gen) ELSE {ONE_HOUR}) :
            LET r == TruckRun(trucks[truck_i], stations, curr_station_idx, d)
            IN  /\ trucks' = [trucks EXCEPT ![truck_i] = r.truck]
                /\ stations' = r.stations
                /\ curr_station_idx' = r.curr_idx
                /\ gen' = IF Draws(trucks[truck_i]) THEN gen + 1 ELSE gen
                /\ sim_time' = sim_time
                /\ pc' = IF r.thrown THEN "aborted"
                         ELSE IF truck_i = Len(trucks) THEN "decrement" ELSE "trucks"
    /\ pc = "report" =>
        /\ pc' = "done"
        /\ UNCHANGED <<trucks, stations, curr_station_idx, sim_time, gen>>
    /\ debug' = debug

(***************************************************************************)
(* C26: the debug checks only read and never abort: no run is aborted,     *)
(* every step of a run, with debug on or off, is the step the run without  *)
(* the checks takes from the same state with the same draw, and a run that *)
(* ends has completed all MAX_TIME ticks.                                  *)
(***************************************************************************)
C26_DebugChangesNothing ==
    [][/\ StepWithoutDebug
       /\ pc' # "aborted"
       /\ pc' = "done" => sim_time' = 0 /\ ticks' = MAX_TIME]_vars

C26_Witness ==
    /\ debug
    /\ pc = "done"
    /\ ticks = MAX_TIME
    /\ NumStations = 2
    /\ \E i \in 1..NumTrucks : Waiting(trucks[i]) > 0
    /\ \A i \in 1..NumTrucks : cumulative_time(trucks[i]) = MAX_TIME

\* the stations whose queue is one more than the minimum are the b stations
\* that cyclically precede the cursor
BlockBeforeCursor(b) ==
    \A k \in 0..(NumStations - 1) :
        get_queue(stations[k + 1]) =
            MinQueue(stations) +
            (IF (curr_station_idx + NumStations - 1 - k) % NumStations < b
             THEN 1 ELSE 0)

TickBoundary == (pc = "trucks" /\ truck_i = 1) \/ pc \in {"report", "done"}

\* the trucks in Waiting at station s (0-based)
WaitingAt(s) ==
    {i \in 1..NumTrucks : trucks[i].state = "Waiting" /\ trucks[i].station_idx = s}

(***************************************************************************)
(* C28: at every tick boundary the queue of each station equals the number *)
(* of trucks in Waiting at that station, and the timers of those trucks    *)
(* are exactly 1, 2, ..., queue.                                           *)
(***************************************************************************)
C28_QueueIsWaitingTrucks ==
    TickBoundary =>
        \A k \in 1..NumStations :
            /\ get_queue(stations[k]) = Cardinality(WaitingAt(k - 1))
            /\ {trucks[i].timer : i \in WaitingAt(k - 1)} = 1..get_queue(stations[k])

C28_Witness ==
    /\ TickBoundary
    /\ ticks > 0
    /\ \E k \in 1..NumStations :
        /\ get_queue(stations[k]) = 2
        /\ Cardinality(WaitingAt(k - 1)) = 2
        /\ {trucks[i].timer : i \in WaitingAt(k - 1)} = {1, 2}

(***************************************************************************)
(* C29: no two trucks perform Unloading at the same station in the same    *)
(* tick: at most one Unloading call is made at a station per tick, the     *)
(* unloaded count of a station grows only by such a call, by 1, hence by   *)
(* at most 1 per tick, and it never exceeds the number of ticks elapsed.   *)
(***************************************************************************)
C29_OneUnloadPerStationPerTick ==
    [][\A k \in 1..NumStations :
        /\ served'[k] <= 1
        /\ pc = "trucks" =>
               stations'[k].num_trucks_unloaded - stations[k].num_trucks_unloaded =
                   served'[k] - served[k]
        /\ pc # "trucks" =>
               stations'[k].num_trucks_unloaded = stations[k].num_trucks_unloaded
        /\ stations'[k].num_trucks_unloaded <= ticks' + served'[k]
        /\ TickBoundary' => served'[k] = 0]_vars

C29_Witness ==
    /\ NumStations = 1
    /\ pc = "decrement"
    /\ served[1] = 1
    /\ stations[1].num_trucks_unloaded >= 2
    /\ \E i, j \in 1..NumTrucks :
        /\ trucks[i].state = "Unloading"
        /\ trucks[j].state = "Waiting"
        /\ trucks[j].station_idx = 0

\* the elements of the sequence q
Range(q) == {q[n] : n \in 1..Len(q)}

(***************************************************************************)
(* C30: every station serves first come, first served: a truck that makes  *)
(* its Unloading call at station s is the earliest assigned of the trucks  *)
(* assigned to s that have not unloaded yet, and no other truck unloads at *)
(* s in the same tick; so of two trucks assigned to s the one assigned     *)
(* first unloads in a strictly earlier tick.                               *)
(***************************************************************************)
C30_FirstComeFirstServed ==
    [][/\ \A i \in 1..NumTrucks :
            trucks[i].state \in {"Waiting", "Unloading"} =>
                i \in Range(line[trucks[i].station_idx + 1])
       /\ pc = "trucks" /\ trucks[truck_i].state = "Unloading" =>
            LET s == trucks[truck_i].station_idx + 1
            IN  /\ line[s] # <<>>
                /\ Head(line[s]) = truck_i
                /\ served[s] = 0
                /\ line'[s] = Tail(line[s])]_vars

C30_Witness ==
    /\ pc = "trucks"
    /\ \E i \in 1..NumTrucks :
        /\ i < truck_i
        /\ trucks[i].state = "TravelMining"
        /\ trucks[i].timer = TRAVEL_TIME
        /\ served[trucks[i].station_idx + 1] = 1
        /\ Len(line[trucks[i].station_idx + 1]) >= 1
        /\ Head(line[trucks[i].station_idx + 1]) < i

\* floor((fleet_size - 1) / station_count)
WaitBound == (NumTrucks - 1) \div NumStations

(***************************************************************************)
(* C31: the wait timer a truck is given on its arrival is at most          *)
(* floor((fleet_size - 1) / station_count); when fleet_size is at most     *)
(* station_count no truck is ever in Waiting and the Waiting field of      *)
(* every ledger stays 0.                                                   *)
(***************************************************************************)
C31_WaitTimerBound ==
    [][/\ pc = "trucks" /\ Arrives(trucks[truck_i]) =>
            /\ get_queue(stations[curr_station_idx + 1]) <= WaitBound
            /\ trucks'[truck_i].timer <= WaitBound
       /\ NumTrucks <= NumStations =>
            \A i \in 1..NumTrucks :
                /\ trucks'[i].state # "Waiting"
                /\ Waiting(trucks'[i]) = 0]_vars

C31_Witness ==
    /\ NumTrucks = 3
    /\ NumStations = 1
    /\ WaitBound = 2
    /\ \E i \in 1..NumTrucks :
        /\ trucks[i].state = "Waiting"
        /\ phase[i].entry = WaitBound
        /\ phase[i].spent = 0

(***************************************************************************)
(* C32: in every reachable state the queue of each station is at most      *)
(* fleet_size, so the 16-bit queue does not wrap when increment_queue adds *)
(* 1 to it, and the wait timer copied from it is the queue value itself,   *)
(* even with one station and all trucks arriving in the same tick.         *)
(***************************************************************************)
C32_QueueAtMostFleet ==
    [][\A k \in 1..NumStations :
        /\ get_queue(stations[k]) <= NumTrucks
        /\ get_queue(stations'[k]) <= NumTrucks
        /\ NumTrucks < Two16
        /\ pc = "trucks" /\ Arrives(trucks[truck_i]) /\ k = curr_station_idx + 1 =>
               /\ get_queue(stations'[k]) = get_queue(stations[k]) + 1
               /\ trucks'[truck_i].timer = get_queue(stations[k])]_vars

C32_Witness ==
    /\ NumStations = 1
    /\ NumTrucks = 3
    /\ pc = "decrement"
    /\ Len(arrivals) = NumTrucks
    /\ get_queue(stations[1]) = NumTrucks

(***************************************************************************)
(* C33: the timer never underflows: every truck in Mining, TravelStation,  *)
(* Waiting or TravelMining has timer >= 1, so the timer-- of Truck::run is *)
(* never applied to 0 and takes exactly 1 off the timer; no truck is ever  *)
(* in Waiting with timer 0.                                                *)
(***************************************************************************)
C33_TimerNeverUnderflows ==
    [][/\ \A i \in 1..NumTrucks :
            /\ trucks[i].state \in TimedStates => trucks[i].timer >= 1
            /\ trucks'[i].state \in TimedStates => trucks'[i].timer >= 1
       /\ pc = "trucks" /\ trucks[truck_i].state \in TimedStates =>
            Dec16(trucks[truck_i].timer) = trucks[truck_i].timer - 1]_vars

C33_Witness ==
    /\ pc = "trucks"
    /\ \E i \in 1..NumTrucks :
        /\ i < truck_i
        /\ trucks[i].state = "Unloading"
        /\ trucks[i].timer = 0
        /\ calls[i]["Waiting"] = 2
        /\ phase[i].spent = 0

\* the trucks in Unloading at station s (0-based)
UnloadingAt(s) ==
    {i \in 1..NumTrucks : trucks[i].state = "Unloading" /\ trucks[i].station_idx = s}

(***************************************************************************)
(* C34: no truck is lost or served twice: at every tick boundary, for each *)
(* station s, the number of assignments made to s so far equals the        *)
(* unloaded count of s plus the number of trucks in Waiting at s plus the  *)
(* number of trucks in Unloading at s, and the last is 0 or 1.             *)
(***************************************************************************)
C34_AssignmentsAccounted ==
    TickBoundary =>
        \A k \in 1..NumStations :
            /\ assigned[k] = stations[k].num_trucks_unloaded +
                             Cardinality(WaitingAt(k - 1)) +
                             Cardinality(UnloadingAt(k - 1))
            /\ Cardinality(UnloadingAt(k - 1)) <= 1

C34_Witness ==
    /\ TickBoundary
    /\ \E k \in 1..NumStations :
        /\ assigned[k] >= 4
        /\ stations[k].num_trucks_unloaded >= 2
        /\ Cardinality(WaitingAt(k - 1)) = 1
        /\ Cardinality(UnloadingAt(k - 1)) = 1

TypeOK ==
    /\ \A i \in 1..Len(trucks) : trucks[i].state \in TruckState
    /\ curr_station_idx \in 0..(Len(stations) - 1)
    /\ pc \in {"trucks", "decrement", "report", "done", "aborted"}

====
